---- MODULE Spec2Model ----
(***************************************************************************)
(* Model of tools/sd3/generate.py: one run of main() after the command     *)
(* line has been parsed.  The run imports the backend, probes CUDA,        *)
(* resolves width/height/steps, loads the pipeline, moves it to the        *)
(* device, generates one image, creates the output directory, saves the    *)
(* image and prints one JSON record; any exception ends the run in one of  *)
(* the two except clauses.                                                 *)
(***************************************************************************)
EXTENDS Integers, Sequences, FiniteSets, TLC

VARIABLES
    args,         \* the parsed command line (argparse Namespace)
    env,          \* what the machine offers: CUDA, the output directory
    pc,           \* the statement main() executes next
    locals,       \* the local names bound so far
    pipe,         \* the pipeline object: "none", "loaded", or its device
    pipe_kwargs,  \* the keyword arguments of the pipe(...) call
    fs,           \* the output directory and the image file
    stdout,       \* lines printed to sys.stdout
    stderr,       \* lines printed to sys.stderr
    exit_status,  \* -1 while running, then the process exit status
    exc,          \* the exception raised inside the try block, if any
    history       \* the stages executed so far, in order

vars == <<args, env, pc, locals, pipe, pipe_kwargs, fs, stdout, stderr,
          exit_status, exc, history>>

(* ---------------------------- bounds ---------------------------------- *)

\* Largest small integer a user passes for --width/--height/--steps.
MaxUser == 2

\* Values of --width/--height/--steps: negative, zero (the argparse
\* default), small positive ones and a few realistic sizes, some above the
\* CPU defaults and one above the CUDA default.
UserValues == (-1 .. MaxUser) \cup {15, 480, 640, 2048}

\* --negative: the argparse default '' or some text.
NegativeValues == {"", "blurry"}

\* Exception classes a collaborator can raise, as the except clauses see
\* them: ImportError (or a subclass), or any other Exception.
ExcTypes == {"ImportError", "Exception"}

\* The text of str(e), chosen by the collaborator.
ExcMessages == {"msg_a", "msg_b"}

Exceptions == [type : ExcTypes, msg : ExcMessages]

\* No pipe(...) call made yet.
NoKwargs == [called |-> FALSE]

\* No exception raised.
NoExc == [type |-> "none", msg |-> ""]

(* ----------------------- pure parts of main() ------------------------- *)

\* Variant: the CPU branch given the CUDA sizes.
Defaults_SameOnCpu(cuda_available) ==
    IF cuda_available
    THEN [device |-> "cuda", dtype |-> "float16",
          default_width |-> 1024, default_height |-> 1024, default_steps |-> 28]
    ELSE [device |-> "cpu", dtype |-> "float32",
          default_width |-> 1024, default_height |-> 1024, default_steps |-> 28]

\* Lines 32-39: device, dtype and the default sizes chosen from
\* torch.cuda.is_available().
Defaults(cuda_available) ==
    IF cuda_available
    THEN [device |-> "cuda", dtype |-> "float16",
          default_width |-> 1024, default_height |-> 1024, default_steps |-> 28]
    ELSE [device |-> "cpu", dtype |-> "float32",
          default_width |-> 512, default_height |-> 512, default_steps |-> 10]

\* Variant: the user value clamped to the device default.
Resolved_Clamped(user, default) ==
    IF user > 0 THEN (IF user > default THEN default ELSE user) ELSE default

\* Variant: `if args.x != 0`, so that a negative value is kept.
Resolved_NonZero(user, default) == IF user # 0 THEN user ELSE default

\* Lines 41-43: `x = args.x if args.x > 0 else default_x`.
Resolved(user, default) == IF user > 0 THEN user ELSE default

\* Line 60: `args.negative if args.negative else None`.
NegativePrompt(negative) == IF negative # "" THEN negative ELSE "None"

\* Variant: the record reports the command-line values.
Metadata_UserValues ==
    [success |-> TRUE, path |-> args.output, width |-> args.width,
     height |-> args.height, steps |-> args.steps,
     cuda |-> locals.cuda_available]

\* Lines 76-83: the metadata dictionary.
Metadata ==
    [success |-> TRUE, path |-> args.output, width |-> locals.width,
     height |-> locals.height, steps |-> locals.steps,
     cuda |-> locals.cuda_available]

\* A line printed with print(..., file=sys.stderr): plain text.
TextLine(prefix, payload) ==
    [format |-> "text", prefix |-> prefix, payload |-> payload]

\* The line printed with print(json.dumps(metadata)).
JsonLine(body) == [format |-> "json", body |-> body]

(* ------------------------------ Init ---------------------------------- *)

\* State when the try block is entered (line 25): args parsed, nothing
\* bound, nothing printed, the filesystem as the environment left it.
Init ==
    /\ args \in [prompt : {"a red fox"}, output : {"out/img.png"},
                 model : {"m.safetensors"}, width : UserValues,
                 height : UserValues, steps : UserValues,
                 negative : NegativeValues]
    /\ env \in [cuda : BOOLEAN, parent_exists : BOOLEAN]
    /\ pc = "import"
    /\ locals = [n \in {} |-> 0]
    /\ pipe = "none"
    /\ pipe_kwargs = NoKwargs
    /\ fs = [parent |-> env.parent_exists, file |-> "absent"]
    /\ stdout = << >>
    /\ stderr = << >>
    /\ exit_status = -1
    /\ exc = NoExc
    /\ history = << >>

(* ------------------------- the except clauses ------------------------- *)

\* Variant: the handler also prints a JSON failure record to stdout.
ExceptHandler_JsonToStdout(e, err) ==
    /\ stderr' = Append(err, TextLine(IF e.type = "ImportError"
                                      THEN "Missing dependency"
                                      ELSE "Error", e.msg))
    /\ stdout' = Append(stdout, [format |-> "json",
                                 body |-> [success |-> FALSE, error |-> e.msg]])
    /\ exit_status' = 1
    /\ pc' = "exited"

\* Variant: the handler prints the failure as a JSON record on stderr.
ExceptHandler_JsonToStderr(e, err) ==
    /\ stderr' = Append(err, [format |-> "json",
                              prefix |-> IF e.type = "ImportError"
                                         THEN "Missing dependency"
                                         ELSE "Error",
                              payload |-> e.msg])
    /\ stdout' = stdout
    /\ exit_status' = 1
    /\ pc' = "exited"

\* Variant: the handler swallows the exception (`pass`), main() returns
\* and the process exits with status 0.
ExceptHandler_Swallow(e, err) ==
    /\ stderr' = err
    /\ stdout' = stdout
    /\ exit_status' = 0
    /\ pc' = "exited"

\* Variant: `except Exception` placed first, so that every failure is
\* reported with the generic prefix.
ExceptHandler_GenericOnly(e, err) ==
    /\ stderr' = Append(err, TextLine("Error", e.msg))
    /\ stdout' = stdout
    /\ exit_status' = 1
    /\ pc' = "exited"

\* Variant: the handler reports the error and the failed statement is
\* tried again.
ExceptHandler_Retry(e, err) ==
    /\ stderr' = Append(err, TextLine(IF e.type = "ImportError"
                                      THEN "Missing dependency"
                                      ELSE "Error", e.msg))
    /\ stdout' = stdout
    /\ exit_status' = exit_status
    /\ pc' = pc

\* Lines 86-91: `except ImportError` is tried first, then
\* `except Exception`; both print one line to stderr and sys.exit(1).
\* err is what stderr holds when the exception is raised.
ExceptHandler(e, err) ==
    /\ stderr' = Append(err, TextLine(IF e.type = "ImportError"
                                      THEN "Missing dependency"
                                      ELSE "Error", e.msg))
    /\ stdout' = stdout
    /\ exit_status' = 1
    /\ pc' = "exited"

\* A statement of the try block raises e: control goes straight to the
\* matching except clause.
Raise(e, err) ==
    /\ exc' = e
    /\ ExceptHandler(e, err)

(* ------------------------------ stages -------------------------------- *)

\* Lines 26-27: import torch / from diffusers import ...
Import ==
    /\ pc = "import"
    /\ history' = Append(history, "import")
    /\ \/ /\ pc' = "probe"
          /\ UNCHANGED <<stdout, stderr, exit_status, exc>>
       \/ \E e \in Exceptions : Raise(e, stderr)
    /\ UNCHANGED <<args, env, locals, pipe, pipe_kwargs, fs>>

\* Lines 29-39: torch.cuda.is_available() and the device defaults.
Probe ==
    /\ pc = "probe"
    /\ history' = Append(history, "probe")
    /\ locals' = locals @@ [cuda_available |-> env.cuda] @@ Defaults(env.cuda)
    /\ pc' = "resolve"
    /\ UNCHANGED <<args, env, pipe, pipe_kwargs, fs, stdout, stderr,
                   exit_status, exc>>

\* Lines 41-46: resolve width/height/steps and print the two progress
\* lines.
Resolve ==
    /\ pc = "resolve"
    /\ history' = Append(history, "resolve")
    /\ locals' = locals @@
                 [width  |-> Resolved(args.width,  locals.default_width),
                  height |-> Resolved(args.height, locals.default_height),
                  steps  |-> Resolved(args.steps,  locals.default_steps)]
    /\ stderr' = stderr \o <<TextLine("[SD3]", "settings"),
                             TextLine("Loading model from", args.model)>>
    /\ pc' = "load"
    /\ UNCHANGED <<args, env, pipe, pipe_kwargs, fs, stdout, exit_status,
                   exc>>

\* Lines 49-52: StableDiffusion3Pipeline.from_single_file(args.model, ...).
LoadModel ==
    /\ pc = "load"
    /\ history' = Append(history, "load")
    /\ \/ /\ pipe' = "loaded"
          /\ pc' = "to"
          /\ UNCHANGED <<stdout, stderr, exit_status, exc>>
       \/ /\ \E e \in Exceptions : Raise(e, stderr)
          /\ UNCHANGED pipe
    /\ UNCHANGED <<args, env, locals, pipe_kwargs, fs>>

\* Line 53: pipe = pipe.to(device).
ToDevice ==
    /\ pc = "to"
    /\ history' = Append(history, "to")
    /\ \/ /\ pipe' = locals.device
          /\ pc' = "generate"
          /\ UNCHANGED <<stdout, stderr, exit_status, exc>>
       \/ /\ \E e \in Exceptions : Raise(e, stderr)
          /\ UNCHANGED pipe
    /\ UNCHANGED <<args, env, locals, pipe_kwargs, fs>>

\* Variant: the output directory is created before the generation call.
Generate_MkdirFirst ==
    /\ pc = "generate"
    /\ history' = Append(history, "generate")
    /\ fs' = [fs EXCEPT !.parent = TRUE]
    /\ pipe_kwargs' = [called |-> TRUE,
                       prompt |-> args.prompt,
                       negative_prompt |-> NegativePrompt(args.negative),
                       num_inference_steps |-> locals.steps,
                       width |-> locals.width,
                       height |-> locals.height]
    /\ LET err == Append(stderr, TextLine("Generating image", args.prompt))
       IN  \/ /\ stderr' = err
              /\ pc' = "mkdir"
              /\ UNCHANGED <<stdout, exit_status, exc>>
           \/ \E e \in Exceptions : Raise(e, err)
    /\ UNCHANGED <<args, env, locals, pipe>>

\* Lines 55-65: print the announcement, then pipe(...).images[0].
Generate ==
    /\ pc = "generate"
    /\ history' = Append(history, "generate")
    /\ pipe_kwargs' = [called |-> TRUE,
                       prompt |-> args.prompt,
                       negative_prompt |-> NegativePrompt(args.negative),
                       num_inference_steps |-> locals.steps,
                       width |-> locals.width,
                       height |-> locals.height]
    /\ LET err == Append(stderr, TextLine("Generating image", args.prompt))
       IN  \/ /\ stderr' = err
              /\ pc' = "mkdir"
              /\ UNCHANGED <<stdout, exit_status, exc>>
           \/ \E e \in Exceptions : Raise(e, err)
    /\ UNCHANGED <<args, env, locals, pipe, fs>>

\* Lines 68-69: output_path.parent.mkdir(parents=True, exist_ok=True).
Mkdir ==
    /\ pc = "mkdir"
    /\ history' = Append(history, "mkdir")
    /\ \/ /\ fs' = [fs EXCEPT !.parent = TRUE]
          /\ pc' = "save"
          /\ UNCHANGED <<stdout, stderr, exit_status, exc>>
       \/ /\ \E e \in Exceptions : Raise(e, stderr)
          /\ UNCHANGED fs
    /\ UNCHANGED <<args, env, locals, pipe, pipe_kwargs>>

\* Lines 72-73: image.save(str(output_path)) and the confirmation line.
\* A failing save leaves no file or a partial one.
Save ==
    /\ pc = "save"
    /\ history' = Append(history, "save")
    /\ \/ /\ fs' = [fs EXCEPT !.file = "written"]
          /\ stderr' = Append(stderr, TextLine("Image saved to", args.output))
          /\ pc' = "report"
          /\ UNCHANGED <<stdout, exit_status, exc>>
       \/ /\ \E e \in Exceptions : Raise(e, stderr)
          /\ \E f \in {"absent", "partial"} : fs' = [fs EXCEPT !.file = f]
    /\ UNCHANGED <<args, env, locals, pipe, pipe_kwargs>>

\* Lines 76-84: print(json.dumps(metadata)); main() returns and the
\* interpreter exits with status 0.
Report ==
    /\ pc = "report"
    /\ history' = Append(history, "report")
    /\ stdout' = Append(stdout, JsonLine(Metadata))
    /\ exit_status' = 0
    /\ pc' = "exited"
    /\ UNCHANGED <<args, env, locals, pipe, pipe_kwargs, fs, stderr, exc>>

Next ==
    \/ Import
    \/ Probe
    \/ Resolve
    \/ LoadModel
    \/ ToDevice
    \/ Generate
    \/ Mkdir
    \/ Save
    \/ Report

Spec == Init /\ [][Next]_vars

(* --------------------- observations on a run -------------------------- *)

\* The stages of main() in program order.
StageOrder == <<"import", "probe", "resolve", "load", "to", "generate",
                "mkdir", "save", "report">>

Fields == {"width", "height", "steps"}

Exited == pc = "exited"

Raised == exc # NoExc

Succeeded == Exited /\ exit_status = 0

\* The stage whose statement ran last.
LastStage == history[Len(history)]

\* Number of JSON lines on a stream.
JsonCount(stream) ==
    Cardinality({i \in DOMAIN stream : stream[i].format = "json"})

\* Stage s ran and returned without raising.
Returned(s) ==
    \E i \in DOMAIN history :
        /\ history[i] = s
        /\ (i < Len(history) \/ ~Raised)

\* Number of times stage s ran.
Runs(s) == Cardinality({i \in DOMAIN history : history[i] = s})

\* width, height and steps are bound (lines 41-43 have run).
HasResolved == Fields \subseteq DOMAIN locals

\* The filesystem as the run found it.
FsAtStart == [parent |-> env.parent_exists, file |-> "absent"]

\* The failure category of the taxonomy a failure belongs to, read as
\* favourably to the code as the taxonomy allows: an ImportError is a
\* missing capability wherever it is raised; any other exception belongs
\* to the mode of the stage that raised it.
FailureMode(stage, e) ==
    CASE e.type = "ImportError" -> "MissingCapability"
      [] e.type # "ImportError" /\ stage \in {"load", "to"} ->
             "ModelLoadFailure"
      [] e.type # "ImportError" /\ stage = "generate" -> "GenerationFailure"
      [] e.type # "ImportError" /\ stage \in {"mkdir", "save"} -> "IOFailure"
      [] OTHER -> "Other"

\* The category a diagnostic line announces, read as favourably as its
\* prefix allows: "Missing dependency" is MissingCapability, and the
\* generic "Error" is taken for ModelLoadFailure, the category the
\* missing-model scenario expects.
CategoryOfLine(line) ==
    IF line.prefix = "Missing dependency" THEN "MissingCapability"
    ELSE IF line.prefix = "Error" THEN "ModelLoadFailure"
    ELSE "None"

(* ------------------------------ claims -------------------------------- *)

\* C1: stdout never holds more than one JSON record; a run that ends with
\* exit status 0 has written exactly one, and a run that ends in failure
\* (import, load, generation, mkdir or save failing) has written none.
C1_StdoutRecordCount ==
    /\ JsonCount(stdout) <= 1
    /\ Len(stdout) = JsonCount(stdout)
    /\ Succeeded => JsonCount(stdout) = 1
    /\ (Exited /\ exit_status # 0) => JsonCount(stdout) = 0
    /\ Raised => JsonCount(stdout) = 0

C1_Witness ==
    /\ Succeeded
    /\ JsonCount(stdout) = 1
    /\ stdout[1].body.success

\* C2 as stated: every finished run, successful or failed, has produced
\* exactly one structured record over both streams.
C2_ExactlyOneRecordEveryRun ==
    Exited => JsonCount(stdout) + JsonCount(stderr) = 1

\* C2 amended: a run produces at most one structured record, exactly one
\* (on stdout) when it succeeds and none when it fails; stderr never
\* carries a structured record.
C2_AtMostOneRecord ==
    /\ JsonCount(stdout) + JsonCount(stderr) <= 1
    /\ JsonCount(stderr) = 0
    /\ Exited => JsonCount(stdout) + JsonCount(stderr) =
                     (IF exit_status = 0 THEN 1 ELSE 0)

C2_Witness ==
    /\ Exited
    /\ exit_status = 1
    /\ LastStage = "generate"
    /\ JsonCount(stdout) + JsonCount(stderr) = 0
    /\ Len(stderr) > 0

\* C3: whenever a stage raises, the run has ended with exit status 1 and
\* the last line of stderr is the error message carrying str(e); no
\* raised failure ends with status 0 or without that line.
C3_FailureReported ==
    Raised =>
        /\ Exited
        /\ exit_status = 1
        /\ Len(stderr) >= 1
        /\ stderr[Len(stderr)].prefix \in {"Missing dependency", "Error"}
        /\ stderr[Len(stderr)].payload = exc.msg

C3_Witness ==
    /\ Raised
    /\ LastStage = "save"
    /\ exit_status = 1
    /\ stderr[Len(stderr)].payload = exc.msg

\* C4 as stated: the diagnostic line of a run that failed in one of the
\* four modes (MissingCapability, ModelLoadFailure, GenerationFailure,
\* IOFailure) announces the category of that mode, one category per mode.
C4_DistinctCategoryPerMode ==
    (Raised /\ FailureMode(LastStage, exc) # "Other") =>
        CategoryOfLine(stderr[Len(stderr)]) = FailureMode(LastStage, exc)

\* C4 amended: the diagnostic line has one of two prefixes, chosen by the
\* class of the exception alone: "Missing dependency" for an ImportError
\* raised at any stage, "Error" for every other exception, whichever of
\* model load, device transfer, generation, mkdir or save raised it.
C4_TwoCategoriesByExceptionClass ==
    Raised =>
        /\ Len(stderr) >= 1
        /\ stderr[Len(stderr)].prefix =
               (IF exc.type = "ImportError" THEN "Missing dependency"
                                            ELSE "Error")
        /\ (exc.type = "ImportError") <=>
               (stderr[Len(stderr)].prefix = "Missing dependency")

C4_Witness ==
    /\ Raised
    /\ LastStage = "load"
    /\ exc.type = "Exception"
    /\ stderr[Len(stderr)].prefix = "Error"

\* C5: each of width, height and steps that the user gave as a positive
\* integer is resolved to exactly that value, on either device and
\* whatever the other two are, and that value is what pipe() receives.
C5_PositiveOverrideKept ==
    /\ HasResolved =>
           \A f \in Fields : args[f] > 0 => locals[f] = args[f]
    /\ pipe_kwargs.called =>
           /\ args.width > 0 => pipe_kwargs.width = args.width
           /\ args.height > 0 => pipe_kwargs.height = args.height
           /\ args.steps > 0 => pipe_kwargs.num_inference_steps = args.steps

C5_Witness ==
    /\ args.width = 640 /\ args.height = 480 /\ args.steps = 15
    /\ ~env.cuda
    /\ pipe_kwargs.called
    /\ pipe_kwargs.width = 640
    /\ pipe_kwargs.height = 480
    /\ pipe_kwargs.num_inference_steps = 15

\* C6: each of width, height and steps that the user left at 0 is
\* resolved to the device default: 1024, 1024, 28 with CUDA and
\* 512, 512, 10 without; every default differs between the two devices.
C6_UnsetGetsDeviceDefault ==
    /\ HasResolved =>
           /\ args.width = 0 => locals.width = (IF env.cuda THEN 1024 ELSE 512)
           /\ args.height = 0 => locals.height = (IF env.cuda THEN 1024 ELSE 512)
           /\ args.steps = 0 => locals.steps = (IF env.cuda THEN 28 ELSE 10)
    /\ "default_width" \in DOMAIN locals =>
           /\ locals.default_width # Defaults(~env.cuda).default_width
           /\ locals.default_height # Defaults(~env.cuda).default_height
           /\ locals.default_steps # Defaults(~env.cuda).default_steps

C6_Witness ==
    /\ args.width = 0 /\ args.height = 0 /\ args.steps = 0
    /\ ~env.cuda
    /\ HasResolved
    /\ locals.width = 512 /\ locals.height = 512 /\ locals.steps = 10

\* C7: for every user value (positive, zero or negative) and either
\* device, the resolved width, height and steps, the values passed to
\* pipe() and the values in the success record are strictly positive.
C7_ResolvedPositive ==
    /\ HasResolved => \A f \in Fields : locals[f] > 0
    /\ pipe_kwargs.called =>
           /\ pipe_kwargs.width > 0
           /\ pipe_kwargs.height > 0
           /\ pipe_kwargs.num_inference_steps > 0
    /\ \A i \in DOMAIN stdout :
           /\ stdout[i].body.width > 0
           /\ stdout[i].body.height > 0
           /\ stdout[i].body.steps > 0

C7_Witness ==
    /\ args.width < 0 /\ args.height = 0 /\ args.steps < 0
    /\ Len(stdout) = 1
    /\ stdout[1].body.width > 0
    /\ stdout[1].body.steps > 0

\* The success record agrees with the generation call and the probe.
RecordMatchesCall ==
    /\ Len(stdout) = 1
    /\ JsonCount(stdout) = 1
    /\ stdout[1].body.success
    /\ stdout[1].body.width = pipe_kwargs.width
    /\ stdout[1].body.height = pipe_kwargs.height
    /\ stdout[1].body.steps = pipe_kwargs.num_inference_steps
    /\ stdout[1].body.cuda = env.cuda
    /\ pipe = (IF stdout[1].body.cuda THEN "cuda" ELSE "cpu")

\* C8 as stated: every finished run in which model load and generation
\* returned has emitted exactly one success record matching the call.
C8_RecordWheneverBackendSucceeds ==
    (Exited /\ Returned("load") /\ Returned("generate")) => RecordMatchesCall

\* C8 amended: every finished run in which model load, generation,
\* directory creation and image save all returned has emitted exactly one
\* success record whose width, height and steps are those passed to
\* pipe() and whose cuda flag is the probe result that chose the device.
C8_RecordWhenBackendAndPersistSucceed ==
    (Exited /\ Returned("load") /\ Returned("generate")
            /\ Returned("mkdir") /\ Returned("save")) => RecordMatchesCall

C8_Witness ==
    /\ Succeeded
    /\ args.width = 0
    /\ args.steps = 15
    /\ env.cuda
    /\ stdout[1].body.width = 1024
    /\ stdout[1].body.steps = 15
    /\ stdout[1].body.cuda

\* C9: the stages run in program order, each at most once: the history is
\* always a prefix of import, probe, resolve, load, to, generate, mkdir,
\* save, report; a running process is at the next stage of that order;
\* a raised failure is the last stage of the run, so nothing runs after
\* it and nothing is attempted twice.
C9_StagesInOrderOnce ==
    /\ Len(history) <= Len(StageOrder)
    /\ \A i \in DOMAIN history : history[i] = StageOrder[i]
    /\ \A s \in {"load", "generate"} : Runs(s) <= 1
    /\ ~Exited => pc = StageOrder[Len(history) + 1]
    /\ Raised => Exited /\ LastStage # "report"
    /\ (Exited /\ ~Raised) => history = StageOrder

C9_Witness ==
    /\ Exited
    /\ Raised
    /\ history = <<"import", "probe", "resolve", "load", "to">>

\* C10: the directory is created and the file written only after the
\* generation call has returned; a run that fails at import, load, device
\* transfer or generation leaves the filesystem as it found it; a
\* successful run has written the image exactly once, before the record.
C10_FilesystemFrame ==
    /\ fs # FsAtStart => Returned("generate")
    /\ (Raised /\ LastStage \in {"import", "load", "to", "generate"}) =>
           fs = FsAtStart
    /\ Succeeded => fs.file = "written" /\ fs.parent /\ Runs("save") = 1
    /\ Len(stdout) > 0 => fs.file = "written" /\ Returned("save")

C10_Witness ==
    /\ Succeeded
    /\ ~env.parent_exists
    /\ fs.parent
    /\ fs.file = "written"
    /\ Runs("save") = 1

====
